---- MODULE Spec2Model ----
(***************************************************************************)
(* TensorData of burn-tensor (crates/burn-tensor/src/tensor/data.rs): a    *)
(* dtype-tagged byte buffer with a shape.  The buffer is modelled byte by  *)
(* byte (little endian, two's complement, IEEE 754 fields), so that every  *)
(* reinterpretation the code performs is computed and none is assumed.     *)
(***************************************************************************)
EXTENDS Integers, Sequences, FiniteSets, TLC

\* ------------------------------------------------------------------ bounds

\* Longest value vector handed to a constructor.
MaxLen == 2
\* Largest single dimension of a shape.
MaxDim == 2
\* Largest rank of a shape.
MaxRank == 2
\* Most conversions and (de)quantizations applied to one constructed tensor.
MaxOps == 2
\* Longest buffer of a deserialized TensorData.
MaxWireLen == 9

\* ------------------------------------------------------------------ dtypes

IntTypes == {"I8", "I16", "I32", "I64", "U8", "U32", "U64"}
FloatTypes == {"F16", "BF16", "F32", "F64"}
\* The element types E: every kind that implements Element.
ElemTypes == IntTypes \cup FloatTypes \cup {"Bool"}
\* QuantizationScheme::PerTensorAffine(QInt8) / PerTensorSymmetric(QInt8).
Schemes == {"PerTensorAffine", "PerTensorSymmetric"}
\* DType::QFloat(scheme), written as the scheme's name behind a "Q".
QFloat(scheme) == IF scheme = "PerTensorAffine" THEN "QAffine" ELSE "QSymmetric"
QFloatTypes == {QFloat(s) : s \in Schemes}
DTypes == ElemTypes \cup QFloatTypes
IsQFloat(dtype) == dtype \in QFloatTypes
SchemeOf(dtype) == IF dtype = "QAffine" THEN "PerTensorAffine" ELSE "PerTensorSymmetric"

\* core::mem::size_of::<E>() in bytes.
size_of(E) ==
  CASE E \in {"I8", "U8", "Bool"} -> 1
    [] E \in {"I16", "F16", "BF16"} -> 2
    [] E \in {"I32", "U32", "F32"} -> 4
    [] E \in {"I64", "U64", "F64"} -> 8

\* DType::size(): the width of one stored element; a quantized element is
\* one QInt8 code.
DTypeSize(dtype) == IF IsQFloat(dtype) THEN 1 ELSE size_of(dtype)

Signed(E) == E \in {"I8", "I16", "I32", "I64"}

\* ------------------------------------------------------------- arithmetic

RECURSIVE Pow2(_)
Pow2(n) == IF n = 0 THEN 1 ELSE 2 * Pow2(n - 1)

Abs(v) == IF v < 0 THEN -v ELSE v

\* Position of the leading one bit of a positive integer.
RECURSIVE Log2(_)
Log2(v) == IF v <= 1 THEN 0 ELSE 1 + Log2(v \div 2)

\* The n low bits of v, most significant first.
ToBits(v, n) == [i \in 1..n |-> (v \div Pow2(n - i)) % 2]

RECURSIVE FromBits(_)
FromBits(bs) ==
  IF bs = <<>> THEN 0
  ELSE 2 * FromBits(SubSeq(bs, 1, Len(bs) - 1)) + bs[Len(bs)]

Zeros(n) == [i \in 1..n |-> 0]

Reverse(s) == [i \in 1..Len(s) |-> s[Len(s) + 1 - i]]

Take(s, n) == SubSeq(s, 1, IF n < Len(s) THEN n ELSE Len(s))

\* ---------------------------------------------------- scalars <-> bytes

\* bytemuck::bytes_of on an integer: w little-endian bytes, two's complement.
RECURSIVE IntBytes(_, _)
IntBytes(v, w) ==
  IF w = 0 THEN <<>> ELSE <<v % 256>> \o IntBytes(v \div 256, w - 1)

\* The integer held by little-endian bytes, read from the top byte down.
RECURSIVE IntOfBytes(_, _)
IntOfBytes(bs, signed) ==
  IF Len(bs) = 1
  THEN IF signed /\ bs[1] >= 128 THEN bs[1] - 256 ELSE bs[1]
  ELSE 256 * IntOfBytes(Tail(bs), signed) + bs[1]

\* IEEE 754 binary formats: exponent bits and mantissa bits.
ExpBits(E) ==
  CASE E = "F16" -> 5 [] E = "BF16" -> 8 [] E = "F32" -> 8 [] E = "F64" -> 11
MantBits(E) ==
  CASE E = "F16" -> 10 [] E = "BF16" -> 7 [] E = "F32" -> 23 [] E = "F64" -> 52
Bias(E) == Pow2(ExpBits(E) - 1) - 1

\* The floats that are no numbers: the infinities and one NaN.  The
\* infinities are written as integers beyond every finite value of the model,
\* so that they order as they do in IEEE 754; NaN orders with nothing.
PosInf == 1073741824
NegInf == -PosInf
NaN == PosInf + 1
Specials == {PosInf, NegInf, NaN}
is_nan(v) == v = NaN
is_infinite(v) == v \in {PosInf, NegInf}

Ones(n) == [i \in 1..n |-> 1]

\* The bits (sign, exponent, mantissa) of an integer-valued float, of an
\* infinity (exponent all ones, mantissa zero) and of the quiet NaN.
FloatBits(E, v) ==
  IF v = 0 THEN Zeros(1 + ExpBits(E) + MantBits(E))
  ELSE IF is_infinite(v)
  THEN <<IF v < 0 THEN 1 ELSE 0>> \o Ones(ExpBits(E)) \o Zeros(MantBits(E))
  ELSE IF is_nan(v)
  THEN <<0>> \o Ones(ExpBits(E)) \o <<1>> \o Zeros(MantBits(E) - 1)
  ELSE LET p == Log2(Abs(v))
           frac == ToBits(Abs(v) - Pow2(p), p)
           mant == IF p <= MantBits(E)
                   THEN frac \o Zeros(MantBits(E) - p)
                   ELSE SubSeq(frac, 1, MantBits(E))
       IN <<IF v < 0 THEN 1 ELSE 0>> \o ToBits(Bias(E) + p, ExpBits(E)) \o mant

\* Eight bits, most significant first, as one byte.
BitsToBytesBE(bits) ==
  [k \in 1..(Len(bits) \div 8) |-> FromBits(SubSeq(bits, 8 * k - 7, 8 * k))]
BytesToBitsBE(bs) ==
  [i \in 1..(8 * Len(bs)) |-> ToBits(bs[(i + 7) \div 8], 8)[((i - 1) % 8) + 1]]

FloatBytes(E, v) == Reverse(BitsToBytesBE(FloatBits(E, v)))

\* The value of an integer-valued float from its little-endian bytes.
FloatOfBytes(E, bs) ==
  LET bits == BytesToBitsBE(Reverse(bs))
      e == FromBits(SubSeq(bits, 2, 1 + ExpBits(E)))
      mant == SubSeq(bits, 2 + ExpBits(E), Len(bits))
      p == e - Bias(E)
      frac == IF p <= MantBits(E) THEN SubSeq(mant, 1, p)
              ELSE mant \o Zeros(p - MantBits(E))
      mag == Pow2(p) + FromBits(frac)
  IN IF e = 0 THEN 0
     ELSE IF e = Pow2(ExpBits(E)) - 1
     THEN IF mant # Zeros(MantBits(E)) THEN NaN
          ELSE IF bits[1] = 1 THEN NegInf ELSE PosInf
     ELSE IF bits[1] = 1 THEN -mag ELSE mag

\* The integer-valued floats the model reaches: |v| <= 2 * (127 + 128),
\* rounded to eight significant bits.
FloatRange == -512..512

\* The two float conversions, tabulated over FloatRange and the floats that
\* are no numbers (each entry is computed by FloatBytes and FloatOfBytes).
FloatBytesOf ==
  [E \in FloatTypes |-> [v \in FloatRange \cup Specials |-> FloatBytes(E, v)]]
FloatValueOf ==
  [E \in FloatTypes |->
     [bs \in {FloatBytesOf[E][v] : v \in FloatRange \cup Specials} |->
        FloatOfBytes(E, bs)]]

\* bytemuck::bytes_of(&value) for a value of element type E.
bytes_of(E, v) ==
  IF E \in FloatTypes THEN FloatBytesOf[E][v] ELSE IntBytes(v, size_of(E))

\* *bytemuck::from_bytes(window) / pod_read_unaligned for element type E.
from_bytes(E, bs) ==
  IF E \in FloatTypes THEN FloatValueOf[E][bs] ELSE IntOfBytes(bs, Signed(E))

\* core::mem::align_of::<E>() on the 64-bit targets the crate is built for.
align_of(E) == size_of(E)

\* ------------------------------------------------- Element conversions

\* Range of the narrow integer kinds; the wide ones hold every value the
\* model reaches.
MinOf(E) == CASE E = "I8" -> -128 [] E = "I16" -> -32768 [] OTHER -> 0
MaxOf(E) == CASE E = "I8" -> 127 [] E = "I16" -> 32767 [] E = "U8" -> 255

Clamp(v, lo, hi) == IF v < lo THEN lo ELSE IF v > hi THEN hi ELSE v

\* Round to nearest, ties to even, to the significant bits a float kind holds.
RoundFloat(E, v) ==
  LET p == Log2(Abs(v))
      step == Pow2(p - MantBits(E))
      q == Abs(v) \div step
      r == Abs(v) % step
      up == IF 2 * r > step \/ (2 * r = step /\ q % 2 = 1) THEN q + 1 ELSE q
  IN IF v = 0 \/ v \in Specials \/ p <= MantBits(E) THEN v
     ELSE IF v < 0 THEN -(up * step) ELSE up * step

\* The largest finite f16; the other float kinds hold every finite value of
\* the model.
MaxF16 == 65504
\* A rounded value beyond the largest finite value of the kind is an infinity.
Overflow(E, r) ==
  IF E = "F16" /\ r \notin Specials /\ Abs(r) > MaxF16
  THEN IF r < 0 THEN NegInf ELSE PosInf
  ELSE r

\* value.elem::<E>(): the lossy conversion of a number to element type E.
\* A value outside the range of E saturates, and NaN is the integer 0; an
\* infinity read as a wide integer stands for the bound of that kind.
elem(E, v) ==
  CASE E = "Bool" -> IF v # 0 THEN 1 ELSE 0
    [] E \in FloatTypes -> Overflow(E, RoundFloat(E, v))
    [] is_nan(v) -> 0
    [] E \in {"I8", "I16", "U8"} -> Clamp(v, MinOf(E), MaxOf(E))
    [] E \in {"U32", "U64"} -> IF v < 0 THEN 0 ELSE v
    [] E \in {"I32", "I64"} -> v

\* --------------------------------------------------------- quantization

\* QuantizationStrategy: PerTensorAffineInt8(scale: f32, offset: i8) or
\* PerTensorSymmetricInt8(scale: f32).
AffineInt8(scale, offset) ==
  [scheme |-> "PerTensorAffine", scale |-> scale, offset |-> offset]
SymmetricInt8(scale) ==
  [scheme |-> "PerTensorSymmetric", scale |-> scale, offset |-> 0]

\* x / scale rounded half away from zero (f32::round).
RoundDiv(x, s) ==
  IF x < 0 THEN -((2 * (-x) + s) \div (2 * s)) ELSE (2 * x + s) \div (2 * s)

\* strategy.quantize(values): one QInt8 code per value.
quantize(strategy, values) ==
  [i \in 1..Len(values) |->
     IF strategy.scheme = "PerTensorAffine"
     THEN Clamp(RoundDiv(values[i], strategy.scale) + strategy.offset, -128, 127)
     ELSE Clamp(RoundDiv(values[i], strategy.scale), -127, 127)]

\* strategy.dequantize(codes): the inverse formula, one f32 per code.
dequantize_values(scheme, scale, offset, codes) ==
  [i \in 1..Len(codes) |->
     IF scheme = "PerTensorAffine"
     THEN scale * (codes[i] - offset)
     ELSE scale * codes[i]]

\* ----------------------------------------------------------- TensorData

\* bytes is a Vec<u8>: its contents, and the alignment and the capacity (in
\* bytes) of its allocation.
TensorData(bytes_, shape_, dtype_, align_, capacity_) ==
  [bytes |-> bytes_, shape |-> shape_, dtype |-> dtype_, align |-> align_,
   capacity |-> capacity_]

\* No TensorData is held (before the first construction, after a panic).
NoData == TensorData(<<>>, <<>>, "None", 1, 0)

Ok(td) == [kind |-> "Ok", td |-> td]
Panic == [kind |-> "Panic", td |-> NoData]

\* shape.iter().product()
RECURSIVE numel(_)
numel(shape) ==
  IF shape = <<>> THEN 1 ELSE Head(shape) * numel(Tail(shape))

num_elements(td) == numel(td.shape)

\* The bytes of a Vec<E>, element after element.
RECURSIVE value_into_bytes(_, _)
value_into_bytes(E, value) ==
  IF value = <<>> THEN <<>>
  ELSE bytes_of(E, Head(value)) \o value_into_bytes(E, Tail(value))

\* validate_data_shape without the truncation.
validate_data_shape_keep(value, shape) ==
  [ok |-> numel(shape) <= Len(value), value |-> value]

\* value.truncate(numel(shape)); the assertion holds iff the truncated length
\* is numel(shape). The truncation keeps the capacity of the vector.
validate_data_shape(value, shape) ==
  LET truncated == Take(value, numel(shape))
  IN [ok |-> numel(shape) = Len(truncated), value |-> truncated]

\* The capacity value_into_bytes gives the buffer, with the factor forgotten.
bytes_capacity_elems(E, capacity) == capacity

\* value_into_bytes: the capacity of the buffer is the capacity of the
\* Vec<E> times size_of::<E>().
bytes_capacity(E, capacity) == capacity * size_of(E)

\* init of a Vec<E> holding value in an allocation of capacity elements.
init(E, value, capacity, shape, dtype) ==
  TensorData(value_into_bytes(E, value), shape, dtype, align_of(E),
             bytes_capacity(E, capacity))

\* new without the assertion on the length.
new_unchecked(E, value, shape) ==
  Ok(init(E, Take(value, numel(shape)), Len(value), shape, E))

new(E, value, shape) ==
  LET v == validate_data_shape(value, shape)
  IN IF v.ok THEN Ok(init(E, v.value, Len(value), shape, E)) ELSE Panic

\* The parameters with the offset packed as a 32-bit integer.
ParamBytes_i32(strategy) ==
  IF strategy.scheme = "PerTensorAffine"
  THEN bytes_of("I32", strategy.offset) \o bytes_of("F32", strategy.scale)
  ELSE bytes_of("F32", strategy.scale)

\* The packed parameters: the offset (affine only), then the scale.
ParamBytes(strategy) ==
  IF strategy.scheme = "PerTensorAffine"
  THEN bytes_of("I8", strategy.offset) \o bytes_of("F32", strategy.scale)
  ELSE bytes_of("F32", strategy.scale)

\* quantized packing no parameters behind the values.
quantized_bare(E, value, shape, strategy) ==
  LET v == validate_data_shape(value, shape)
  IN IF v.ok
     THEN Ok(init("U8", value_into_bytes(E, v.value), Len(v.value) * size_of(E),
                  shape, QFloat(strategy.scheme)))
     ELSE Panic

quantized(E, value, shape, strategy) ==
  LET v == validate_data_shape(value, shape)
      bytes == value_into_bytes(E, v.value) \o ParamBytes(strategy)
  IN IF v.ok
     THEN Ok(init("U8", bytes, Len(bytes), shape, QFloat(strategy.scheme)))
     ELSE Panic

\* ---------------------------------------------------------- typed views

OkVec(values) == [kind |-> "Ok", val |-> values]
Err(kind) == [kind |-> kind, val |-> <<>>]

\* The bytes read as consecutive values of type E; trailing bytes that do
\* not fill a value are not read.
Windows(E, bytes) ==
  [i \in 1..(Len(bytes) \div size_of(E)) |->
     from_bytes(E, SubSeq(bytes, (i - 1) * size_of(E) + 1, i * size_of(E)))]

\* bytemuck::checked::try_cast_slice::<u8, E>: fails on a pointer not aligned
\* for E, on a length that is no multiple of the width of E, and on a byte
\* that is no bit pattern of E (a bool is 0 or 1).
CastFails(E, bytes, align) ==
  \/ align_of(E) > align
  \/ Len(bytes) % size_of(E) # 0
  \/ E = "Bool" /\ \E i \in 1..Len(bytes) : bytes[i] \notin {0, 1}

try_cast_slice(E, bytes, align) ==
  IF CastFails(E, bytes, align) THEN Err("CastError") ELSE OkVec(Windows(E, bytes))

\* bytemuck::checked::cast_slice: the same cast, panicking where it fails.
cast_slice(E, bytes, align) ==
  IF CastFails(E, bytes, align) THEN Err("Panic") ELSE OkVec(Windows(E, bytes))

try_as_slice(E, td) == try_cast_slice(E, td.bytes, td.align)

\* as_slice reporting the mismatch as a failed cast.
as_slice_wrong_err(E, td) ==
  IF E = td.dtype THEN try_as_slice(E, td) ELSE Err("CastError")

as_slice(E, td) ==
  IF E = td.dtype THEN try_as_slice(E, td) ELSE Err("TypeMismatch")

as_mut_slice(E, td) ==
  IF E = td.dtype THEN try_cast_slice(E, td.bytes, td.align) ELSE Err("TypeMismatch")

to_vec(E, td) == as_slice(E, td)

\* into_vec losing the last element.
into_vec_short(E, td) ==
  IF E # td.dtype THEN Err("TypeMismatch")
  ELSE [kind |-> "Ok",
        val |-> Take(Windows(E, td.bytes), (Len(td.bytes) \div size_of(E)) - 1),
        capacity |-> td.capacity \div size_of(E)]

\* into_vec rebuilds the vector from the raw parts: len / size_of::<E>()
\* elements in an allocation of capacity / size_of::<E>() elements, whatever
\* the length and the capacity of the buffer.
into_vec(E, td) ==
  IF E # td.dtype THEN Err("TypeMismatch")
  ELSE [kind |-> "Ok", val |-> Windows(E, td.bytes),
        capacity |-> td.capacity \div size_of(E)]

\* The end of the quantized values with a 32-bit offset skipped.
tensor_bytes_end_i32(td) ==
  IF td.dtype = "QAffine"
  THEN Len(td.bytes) - size_of("F32") - size_of("I32")
  ELSE Len(td.bytes) - size_of("F32")

\* The end of the quantized values in the buffer: the scale is an f32, and
\* the affine offset one i8.
tensor_bytes_end(td) ==
  IF td.dtype = "QAffine"
  THEN Len(td.bytes) - size_of("F32") - size_of("I8")
  ELSE Len(td.bytes) - size_of("F32")

tensor_bytes(td) ==
  IF IsQFloat(td.dtype) THEN SubSeq(td.bytes, 1, tensor_bytes_end(td)) ELSE td.bytes

MapElem(E, values) == [i \in 1..Len(values) |-> elem(E, values[i])]

\* iter taking the byte path for the stored type as well.
iter_raw(E, td) ==
  IF td.dtype \in {"U8", "Bool"} \/ E = td.dtype THEN OkVec(MapElem(E, td.bytes))
  ELSE LET read == IF IsQFloat(td.dtype)
                   THEN cast_slice("I8", tensor_bytes(td), td.align)
                   ELSE cast_slice(td.dtype, td.bytes, td.align)
       IN IF read.kind = "Ok" THEN OkVec(MapElem(E, read.val)) ELSE read

iter(E, td) ==
  IF E = td.dtype THEN cast_slice(E, td.bytes, td.align)
  ELSE IF td.dtype \in {"U8", "Bool"} THEN OkVec(MapElem(E, td.bytes))
  ELSE LET read == IF IsQFloat(td.dtype)
                   THEN cast_slice("I8", tensor_bytes(td), td.align)
                   ELSE cast_slice(td.dtype, td.bytes, td.align)
       IN IF read.kind = "Ok" THEN OkVec(MapElem(E, read.val)) ELSE read

\* ------------------------------------------------------------- convert

\* The in-place loop stopping one window early.
RECURSIVE convert_windows_skip(_, _, _, _)
convert_windows_skip(Current, Target, bytes, offset) ==
  LET step == size_of(Current)
      start == offset * step
      end == start + step
      val == from_bytes(Current, SubSeq(bytes, start + 1, end))
      slice_new == bytes_of(Target, elem(Target, val))
  IN IF offset + 1 >= Len(bytes) \div step THEN bytes
     ELSE convert_windows_skip(Current, Target,
            SubSeq(bytes, 1, start) \o slice_new \o SubSeq(bytes, end + 1, Len(bytes)),
            offset + 1)

\* One window of the in-place conversion, then the windows after it.
RECURSIVE convert_windows(_, _, _, _)
convert_windows(Current, Target, bytes, offset) ==
  LET step == size_of(Current)
      start == offset * step
      end == start + step
      val == from_bytes(Current, SubSeq(bytes, start + 1, end))
      slice_new == bytes_of(Target, elem(Target, val))
  IN IF offset >= Len(bytes) \div step THEN bytes
     ELSE convert_windows(Current, Target,
            SubSeq(bytes, 1, start) \o slice_new \o SubSeq(bytes, end + 1, Len(bytes)),
            offset + 1)

\* convert_inplace leaving the dtype as it was.
convert_inplace_stale(Current, Target, td) ==
  IF align_of(Current) > td.align /\ Len(td.bytes) >= size_of(Current)
  THEN Panic
  ELSE Ok(TensorData(convert_windows(Current, Target, td.bytes, 0),
                     td.shape, td.dtype, td.align, td.capacity))

convert_inplace(Current, Target, td) ==
  IF align_of(Current) > td.align /\ Len(td.bytes) >= size_of(Current)
  THEN Panic
  ELSE Ok(TensorData(convert_windows(Current, Target, td.bytes, 0),
                     td.shape, Target, td.align, td.capacity))

convert(E, td) ==
  IF E = td.dtype THEN Ok(td)
  ELSE IF size_of(E) = DTypeSize(td.dtype) /\ td.dtype # "Bool" /\ ~IsQFloat(td.dtype)
  THEN convert_inplace(td.dtype, E, td)
  ELSE LET values == iter(E, td)
       IN IF values.kind = "Ok" THEN new(E, values.val, td.shape) ELSE Panic

\* ------------------------------------------------ quantization of a tensor

NoParams == [kind |-> "None", scale |-> 0, offset |-> <<>>]

\* get_q_params never reading an offset.
get_q_params_no_offset(E, Q, td) ==
  IF IsQFloat(td.dtype)
  THEN [kind |-> "Some",
        scale |-> from_bytes(E, SubSeq(td.bytes, Len(td.bytes) - size_of(E) + 1, Len(td.bytes))),
        offset |-> <<>>]
  ELSE [kind |-> "None", scale |-> 0, offset |-> <<>>]

\* get_q_params::<E, Q>(): the scale from the last size_of::<E>() bytes and,
\* for the affine scheme, the offset from the size_of::<Q>() bytes before it.
get_q_params(E, Q, td) ==
  IF IsQFloat(td.dtype)
  THEN LET total_bytes == Len(td.bytes)
           scale_size == size_of(E)
           offset_size == size_of(Q)
           scale_bytes == SubSeq(td.bytes, total_bytes - scale_size + 1, total_bytes)
           offset_bytes == SubSeq(td.bytes, total_bytes - scale_size - offset_size + 1,
                                  total_bytes - scale_size)
       IN [kind |-> "Some",
           scale |-> from_bytes(E, scale_bytes),
           offset |-> IF SchemeOf(td.dtype) = "PerTensorAffine"
                      THEN <<from_bytes(Q, offset_bytes)>> ELSE <<>>]
  ELSE NoParams

dequantize(td) ==
  IF IsQFloat(td.dtype)
  THEN LET qparams == get_q_params("F32", "I8", td)
           codes == cast_slice("I8", tensor_bytes(td), td.align)
           offset == IF qparams.offset = <<>> THEN 0 ELSE qparams.offset[1]
           value == dequantize_values(SchemeOf(td.dtype), qparams.scale, offset, codes.val)
       IN new("F32", value, td.shape)
  ELSE [kind |-> "TypeMismatch", td |-> NoData]

\* with_quantization reading the values through iter::<f32>(), whatever
\* the dtype.
with_quantization_iter(td, quantization) ==
  LET values == iter("F32", td)
  IN IF values.kind # "Ok" THEN Panic
     ELSE quantized("I8", quantize(quantization, values.val), td.shape, quantization)

with_quantization(td, quantization) ==
  IF td.dtype # "F32" THEN Panic
  ELSE LET values == as_slice("F32", td)
       IN IF values.kind # "Ok" THEN Panic
          ELSE quantized("I8", quantize(quantization, values.val), td.shape, quantization)

\* ---------------------------------------------------------- assertions

\* The comparisons of f32 and f64: one with NaN is false.
Lt(a, b) == ~is_nan(a) /\ ~is_nan(b) /\ a < b
Ge(a, b) == ~is_nan(a) /\ ~is_nan(b) /\ a >= b

Min(a, b) == IF a < b THEN a ELSE b

\* assert_within_range with the upper bound accepted.
assert_within_range_closed(td, start_, end_) ==
  LET start == elem("F32", start_)
      end == elem("F32", end_)
      elems == iter("F32", td)
  IN IF elems.kind # "Ok" THEN "Panic"
     ELSE IF \E i \in 1..Len(elems.val) :
               Lt(elems.val[i], start) \/ Lt(end, elems.val[i])
     THEN "Panic" ELSE "Ok"

\* assert_within_range(start_..end_): the bounds and every element are
\* converted to f32 and compared there.
assert_within_range(td, start_, end_) ==
  LET start == elem("F32", start_)
      end == elem("F32", end_)
      elems == iter("F32", td)
  IN IF elems.kind # "Ok" THEN "Panic"
     ELSE IF \E i \in 1..Len(elems.val) :
               Lt(elems.val[i], start) \/ Ge(elems.val[i], end)
     THEN "Panic" ELSE "Ok"

\* a.cmp(&b).is_ne() of two elements of one kind.
cmp_ne(a, b) == a # b

\* Most positions a failure message lists.
max_num_diff == 5

\* The positions (counted from 0, as enumerate does) of the zipped pairs
\* that differ, in the order of the loop; differs says it of each pair.
Positions(differs) ==
  LET Counts(i) == differs[i + 1]
  IN SelectSeq([i \in 1..Len(differs) |-> i - 1], Counts)

\* The message a comparison builds: its head, the line of the shapes where
\* they differ, a line for each of the first max_num_diff differing
\* positions, and the line "<more> more errors..." once num_diff has
\* reached max_num_diff.
Message(head, shape_differs, diffs) ==
  [head |-> head, shape |-> shape_differs,
   positions |-> Take(diffs, max_num_diff),
   more |-> IF Len(diffs) >= max_num_diff
            THEN <<Len(diffs) - max_num_diff>> ELSE <<>>]

NoMessage == Message("", FALSE, <<>>)

\* panic!(head) with nothing listed.
Failed(head) == [kind |-> "Panic", message |-> Message(head, FALSE, <<>>)]

\* if !message.is_empty() { panic!("{head}{message}") }
Outcome(message) ==
  IF ~message.shape /\ message.positions = <<>> /\ message.more = <<>>
  THEN [kind |-> "Ok", message |-> NoMessage]
  ELSE [kind |-> "Panic", message |-> message]

\* assert_eq_elem: the message is empty iff the shapes are equal and no
\* zipped pair compares unequal.
assert_eq_elem(E, td, other) ==
  LET a == iter(E, td)
      b == iter(E, other)
  IN IF a.kind # "Ok" \/ b.kind # "Ok" THEN Failed("cast")
     ELSE Outcome(Message("Tensors are not eq:", td.shape # other.shape,
                          Positions([i \in 1..Min(Len(a.val), Len(b.val)) |->
                                      cmp_ne(a.val[i], b.val[i])])))

\* assert_eq comparing without a look at the dtypes.
assert_eq_lenient(td, other, strict) ==
  IF IsQFloat(td.dtype)
  THEN IF ~IsQFloat(other.dtype)
       THEN Failed("Quantized data differs from other not quantized data")
       ELSE IF SchemeOf(td.dtype) = SchemeOf(other.dtype)
       THEN assert_eq_elem("I8", td, other)
       ELSE Failed("Quantization schemes differ")
  ELSE assert_eq_elem(td.dtype, td, other)

\* assert_eq(other, strict): the dispatch is on the dtype of self; only a
\* quantized self looks at the dtype of other when strict is false.
assert_eq(td, other, strict) ==
  IF strict /\ td.dtype # other.dtype THEN Failed("Data types differ")
  ELSE IF IsQFloat(td.dtype)
  THEN IF ~IsQFloat(other.dtype)
       THEN Failed("Quantized data differs from other not quantized data")
       ELSE IF SchemeOf(td.dtype) = SchemeOf(other.dtype)
       THEN assert_eq_elem("I8", td, other)
       ELSE Failed("Quantization schemes differ")
  ELSE assert_eq_elem(td.dtype, td, other)

\* A tolerance is the fraction num / den; den = 0 is f64::INFINITY.
Tolerance(num, den) == [num |-> num, den |-> den]

both_nan(a, b) == is_nan(a) /\ is_nan(b)
both_inf(a, b) == is_infinite(a) /\ is_infinite(b) /\ ((a > 0) = (b > 0))

\* ((a - b).pow(2.0f64)).sqrt(): NaN where one of the two is NaN or both
\* are the same infinity, infinite where one is infinite, and |a - b|
\* otherwise (the square of a difference of the model is exact in f64).
err(a, b) ==
  IF is_nan(a) \/ is_nan(b) THEN NaN
  ELSE IF is_infinite(a) \/ is_infinite(b) THEN IF a = b THEN NaN ELSE PosInf
  ELSE Abs(a - b)

\* err > tolerance: an integer e is above num / den iff it is above the
\* quotient rounded down.
Exceeds(e, tolerance) ==
  IF is_nan(e) THEN FALSE
  ELSE IF is_infinite(e) THEN tolerance.den # 0
  ELSE tolerance.den # 0 /\ e > tolerance.num \div tolerance.den

\* The pair (a, b) of one position adds to num_diff.
counts_diff(a, b, tolerance) ==
  /\ ~(both_nan(a, b) \/ both_inf(a, b))
  /\ Exceeds(err(a, b), tolerance) \/ is_nan(err(a, b))

\* assert_approx_eq_diff taking any two infinities for equal.
assert_approx_eq_diff_any_inf(td, other, tolerance) ==
  LET a == iter("F64", td)
      b == iter("F64", other)
      Counts(x, y) == ~(is_infinite(x) /\ is_infinite(y)) /\ counts_diff(x, y, tolerance)
  IN IF a.kind # "Ok" \/ b.kind # "Ok" THEN Failed("cast")
     ELSE Outcome(Message("Tensors are not approx eq:", td.shape # other.shape,
                          Positions([i \in 1..Min(Len(a.val), Len(b.val)) |->
                                      Counts(a.val[i], b.val[i])])))

\* assert_approx_eq_diff failing at a difference equal to the tolerance.
assert_approx_eq_diff_strict(td, other, tolerance) ==
  LET a == iter("F64", td)
      b == iter("F64", other)
      Counts(x, y) ==
        \/ counts_diff(x, y, tolerance)
        \/ /\ ~is_nan(err(x, y)) /\ ~is_infinite(err(x, y))
           /\ tolerance.den # 0
           /\ tolerance.num % tolerance.den = 0
           /\ err(x, y) = tolerance.num \div tolerance.den
  IN IF a.kind # "Ok" \/ b.kind # "Ok" THEN Failed("cast")
     ELSE Outcome(Message("Tensors are not approx eq:", td.shape # other.shape,
                          Positions([i \in 1..Min(Len(a.val), Len(b.val)) |->
                                      Counts(a.val[i], b.val[i])])))

\* assert_approx_eq_diff(other, tolerance): the message is empty iff the
\* shapes are equal and no zipped pair of f64 values counts.
assert_approx_eq_diff(td, other, tolerance) ==
  LET a == iter("F64", td)
      b == iter("F64", other)
      Counts(x, y) == counts_diff(x, y, tolerance)
  IN IF a.kind # "Ok" \/ b.kind # "Ok" THEN Failed("cast")
     ELSE Outcome(Message("Tensors are not approx eq:", td.shape # other.shape,
                          Positions([i \in 1..Min(Len(a.val), Len(b.val)) |->
                                      Counts(a.val[i], b.val[i])])))

RECURSIVE Pow10(_)
Pow10(n) == IF n = 0 THEN 1 ELSE 10 * Pow10(n - 1)

\* assert_approx_eq(other, precision): the tolerance is 0.1.pow(precision).
assert_approx_eq(td, other, precision) ==
  assert_approx_eq_diff(td, other, Tolerance(1, Pow10(precision)))

\* ------------------------------------------------------------ the inputs

SeqsUpTo(S, n) == UNION {[1..k -> S] : k \in 0..n}

\* Values every numeric kind represents exactly; a bool is 0 or 1.
Samples(E) == IF E = "Bool" THEN {0, 1} ELSE {1, 100}
ValueVecs(E) == SeqsUpTo(Samples(E), MaxLen)
\* The shapes of at most MaxLen + 1 elements: one more than values are given.
Shapes == {s \in SeqsUpTo(0..MaxDim, MaxRank) : numel(s) <= MaxLen + 1}
Strategies == {AffineInt8(2, -128), SymmetricInt8(1)}
NoStrategy == [scheme |-> "None", scale |-> 0, offset |-> 0]

\* ------------------------------------------------------------- the state

VARIABLES
  bytes,   \* TensorData.bytes
  shape,   \* TensorData.shape
  dtype,   \* TensorData.dtype, "None" while no TensorData is held
  align,   \* alignment of the buffer's allocation
  capacity, \* bytes.capacity()
  ops,     \* conversions and (de)quantizations since construction
  last     \* the last call: its arguments and what it returned

vars == <<bytes, shape, dtype, align, capacity, ops, last>>

\* The TensorData held.
data == TensorData(bytes, shape, dtype, align, capacity)
Held == dtype # "None"

Call(op, E, kind) ==
  [op |-> op, E |-> E, kind |-> kind, values |-> <<>>, shape |-> <<>>,
   strategy |-> NoStrategy, from |-> "None", index |-> 0,
   val |-> <<>>, params |-> NoParams, elems |-> <<>>, capacity |-> 0]

Hold(td) ==
  /\ bytes' = td.bytes
  /\ shape' = td.shape
  /\ dtype' = td.dtype
  /\ align' = td.align
  /\ capacity' = td.capacity

Init ==
  /\ bytes = <<>>
  /\ shape = <<>>
  /\ dtype = "None"
  /\ align = 1
  /\ capacity = 0
  /\ ops = 0
  /\ last = Call("none", "None", "Ok")

\* The calls that only read the TensorData, and as_mut_slice without a write.
ViewOps == {"as_slice", "as_mut_slice", "to_vec", "into_vec", "iter", "get_q_params"}

\* The last call was a view: what it returned is looked at until the drop.
Observed == last.op \in ViewOps /\ last.index = 0

\* ------------------------------------------------------- constructors

\* Nothing is held and nothing has been called since the last drop.
Fresh == dtype = "None" /\ last.op = "none"

\* A constructor, called while nothing is held, returned r: its TensorData
\* is held, or none after a panic.
Constructed(r, call) ==
  /\ Fresh
  /\ Hold(r.td)
  /\ ops' = 0
  /\ last' = call

DoNew(E, values, shape_) ==
  \E r \in {new(E, values, shape_)} :
    Constructed(r, [Call("new", E, r.kind) EXCEPT !.values = values, !.shape = shape_])

\* num_elements values pushed one after the other, then new.
Filled(E, shape_, v) == new(E, [i \in 1..numel(shape_) |-> v], shape_)

zeros(E, shape_) == Filled(E, shape_, elem(E, 0))
ones(E, shape_) == Filled(E, shape_, elem(E, 1))
full(E, shape_, fill_value) == Filled(E, shape_, fill_value)

\* random: every value is a draw of E::random; the model draws MaxLen values
\* at most.
DoRandom(E, shape_) ==
  /\ numel(shape_) <= MaxLen
  /\ \E draws \in [1..numel(shape_) -> Samples(E)] :
       \E r \in {new(E, draws, shape_)} :
         Constructed(r, [Call("random", E, r.kind) EXCEPT !.values = draws, !.shape = shape_])

DoZeros(E, shape_) ==
  \E r \in {zeros(E, shape_)} :
    Constructed(r, [Call("zeros", E, r.kind) EXCEPT !.shape = shape_])

DoOnes(E, shape_) ==
  \E r \in {ones(E, shape_)} :
    Constructed(r, [Call("ones", E, r.kind) EXCEPT !.shape = shape_])

DoFull(E, shape_, fill_value) ==
  \E r \in {full(E, shape_, fill_value)} :
    Constructed(r, [Call("full", E, r.kind) EXCEPT !.shape = shape_,
                                                  !.values = <<fill_value>>])

\* From<[E; A]> and From<&[E]>: the elements, with shape [A].
from_array(E, elems) == new(E, elems, <<Len(elems)>>)

\* From<[usize; A]> and From<&[usize]>: the elements as i64.
from_usize(elems) == new("I64", elems, <<Len(elems)>>)

\* The rows of a nested array pushed last row first.
RECURSIVE Flatten_back(_)
Flatten_back(rows) ==
  IF rows = <<>> THEN <<>> ELSE Flatten_back(Tail(rows)) \o Head(rows)

\* The rows of a nested array pushed one after the other.
RECURSIVE Flatten(_)
Flatten(rows) == IF rows = <<>> THEN <<>> ELSE Head(rows) \o Flatten(Tail(rows))

\* From<[[E; B]; A]>: the rows in order, with shape [A, B].
from_array2(E, A, B, rows) == new(E, Flatten(rows), <<A, B>>)

DoFrom(E, elems) ==
  \E r \in {from_array(E, elems)} :
    Constructed(r, [Call("from", E, r.kind) EXCEPT !.values = elems])

DoFromUsize(elems) ==
  \E r \in {from_usize(elems)} :
    Constructed(r, [Call("from_usize", "I64", r.kind) EXCEPT !.values = elems])

DoFrom2(E, A, B) ==
  \E rows \in [1..A -> [1..B -> Samples(E)]] :
    \E r \in {from_array2(E, A, B, rows)} :
      Constructed(r, [Call("from2", E, r.kind) EXCEPT !.values = Flatten(rows),
                        !.shape = <<A, B>>, !.elems = rows])

DoQuantized(E, values, shape_, strategy) ==
  \E r \in {quantized(E, values, shape_, strategy)} :
    Constructed(r, [Call("quantized", E, r.kind) EXCEPT !.values = values,
                       !.shape = shape_, !.strategy = strategy])

\* ---------------------------------------------------- consuming methods

\* A method that consumes the TensorData returned r: the result is held,
\* an Err leaves the caller's copy, a panic leaves none.
Consumed(r, call) ==
  /\ Held /\ ~Observed
  /\ ops < MaxOps
  /\ Hold(IF r.kind = "Ok" THEN r.td ELSE IF r.kind = "Panic" THEN NoData ELSE data)
  /\ ops' = ops + 1
  /\ last' = [call EXCEPT !.from = dtype]

DoConvert(E) ==
  \E r \in {convert(E, data)} :
    Consumed(r, Call("convert", E, r.kind))

DoDequantize ==
  \E r \in {dequantize(data)} :
    Consumed(r, Call("dequantize", "F32", r.kind))

DoWithQuantization(strategy) ==
  \E r \in {with_quantization(data, strategy)} :
    Consumed(r, [Call("with_quantization", "I8", r.kind) EXCEPT !.strategy = strategy])

\* ------------------------------------------------------ borrowing methods

\* A method that borrows the TensorData returned r.
Borrowed(call) ==
  /\ Held /\ ~Observed
  /\ UNCHANGED <<bytes, shape, dtype, align, capacity, ops>>
  /\ last' = [call EXCEPT !.from = dtype]

DoAsSlice(E) ==
  \E r \in {as_slice(E, data)} :
    Borrowed([Call("as_slice", E, r.kind) EXCEPT !.val = r.val])

DoToVec(E) ==
  \E r \in {to_vec(E, data)} :
    Borrowed([Call("to_vec", E, r.kind) EXCEPT !.val = r.val])

\* What into_vec can do: Vec::from_raw_parts on a buffer that is not the
\* allocation of a Vec<E> (a length or a capacity that is no multiple of the
\* width, a pointer not aligned for E) is undefined behaviour; a build
\* returns the vector or aborts.
IntoVecOutcomes(E, td) ==
  IF E = td.dtype /\ (CastFails(E, td.bytes, td.align) \/ td.capacity % size_of(E) # 0)
  THEN {into_vec(E, td), Err("Abort")}
  ELSE {into_vec(E, td)}

DoIntoVec(E) ==
  \E r \in IntoVecOutcomes(E, data) :
    Borrowed([Call("into_vec", E, r.kind) EXCEPT
                !.val = r.val,
                !.capacity = IF r.kind = "Ok" THEN r.capacity ELSE 0])

DoIter(E) ==
  \E r \in {iter(E, data)} :
    Borrowed([Call("iter", E, r.kind) EXCEPT !.val = r.val])

DoGetQParams ==
  \E r \in {get_q_params("F32", "I8", data)} :
    Borrowed([Call("get_q_params", "F32", r.kind) EXCEPT !.params = r])

\* slice[index] = value through the slice as_mut_slice returned.
Written(E, bytes_, index, value) ==
  SubSeq(bytes_, 1, (index - 1) * size_of(E)) \o bytes_of(E, value)
    \o SubSeq(bytes_, index * size_of(E) + 1, Len(bytes_))

\* as_mut_slice::<E>(), and a write through the slice where it is Ok and
\* holds the index (index 0: no write).
DoAsMutSlice(E, index, value) ==
  \E r \in {as_mut_slice(E, data)} :
  LET writes == r.kind = "Ok" /\ index \in 1..Len(r.val)
  IN /\ Held /\ ~Observed
     /\ index > 0 => writes
     /\ bytes' = IF writes THEN Written(E, bytes, index, value) ELSE bytes
     /\ UNCHANGED <<shape, dtype, align, capacity, ops>>
     /\ last' = [Call("as_mut_slice", E, r.kind) EXCEPT !.from = dtype,
                   !.index = index, !.values = <<value>>,
                   !.val = IF writes THEN [r.val EXCEPT ![index] = value] ELSE r.val]

\* The TensorData goes out of scope (or the panic has unwound).
DoDrop ==
  /\ ~Fresh
  /\ Hold(NoData)
  /\ ops' = 0
  /\ last' = Call("none", "None", "Ok")

\* ------------------------------------------------------ the specification

\* A constructor is called while nothing is held.
Construct ==
  \/ \E E \in ElemTypes : \E values \in ValueVecs(E), s \in Shapes : DoNew(E, values, s)
  \/ \E E \in ElemTypes, s \in Shapes : DoRandom(E, s)
  \/ \E E \in ElemTypes, s \in Shapes : DoZeros(E, s)
  \/ \E E \in ElemTypes, s \in Shapes : DoOnes(E, s)
  \/ \E E \in ElemTypes : \E s \in Shapes, v \in Samples(E) : DoFull(E, s, v)
  \/ \E E \in ElemTypes : \E elems \in ValueVecs(E) : DoFrom(E, elems)
  \/ \E elems \in ValueVecs("U64") : DoFromUsize(elems)
  \/ \E E \in ElemTypes, A \in 0..MaxDim, B \in 0..MaxDim : DoFrom2(E, A, B)
  \/ \E E \in ElemTypes : \E values \in ValueVecs(E), s \in Shapes, q \in Strategies :
       DoQuantized(E, values, s, q)

\* A method that consumes the TensorData held, a write through
\* as_mut_slice, or the parameters read back.
Use ==
  \/ \E E \in ElemTypes : DoConvert(E)
  \/ DoDequantize
  \/ \E q \in Strategies : DoWithQuantization(q)
  \/ \E E \in ElemTypes \cap {dtype} : \E i \in 1..MaxLen, v \in Samples(E) :
       DoAsMutSlice(E, i, v)
  \/ DoGetQParams

Next ==
  \/ Fresh /\ Construct
  \/ Held /\ ~Observed /\ Use
  \/ DoDrop

Spec == Init /\ [][Next]_vars

\* ------------------------------------------------------------ the views

\* A method that reads the TensorData a constructor returned.
View ==
  \/ \E E \in ElemTypes : DoAsSlice(E)
  \/ \E E \in ElemTypes : DoAsMutSlice(E, 0, 0)
  \/ \E E \in ElemTypes : DoToVec(E)
  \/ \E E \in ElemTypes : DoIntoVec(E)
  \/ \E E \in ElemTypes : DoIter(E)
  \/ DoGetQParams

ViewNext ==
  \/ Fresh /\ Construct
  \/ Held /\ ~Observed /\ View
  \/ DoDrop

SpecViews == Init /\ [][ViewNext]_vars

\* ------------------------------------------------------- the wire form

\* The record of three fields, deserialized: any bytes with any shape and
\* dtype, in a buffer the deserializer allocated.  The model fills the
\* buffer with one byte value: zero, or for the one-byte kinds also 1 and 2.
WireFill(dtype_) == IF DTypeSize(dtype_) = 1 THEN {0, 1, 2} ELSE {0}
WireShapes == {<<d>> : d \in 0..MaxDim}
Alignments == {1, 8}

DoDeserialize(len, fill, shape_, dtype_, align_) ==
  /\ Fresh
  /\ Hold(TensorData([i \in 1..len |-> fill], shape_, dtype_, align_, len))
  /\ ops' = 0
  /\ last' = [Call("deserialize", "None", "Ok") EXCEPT !.shape = shape_]

WireNext ==
  \/ \E len \in 0..MaxWireLen, shape_ \in WireShapes, dtype_ \in DTypes, align_ \in Alignments :
       \E fill \in WireFill(dtype_) : DoDeserialize(len, fill, shape_, dtype_, align_)
  \/ Held /\ ~Observed /\ \E E \in ElemTypes : DoAsSlice(E)
  \/ Held /\ ~Observed /\ \E E \in ElemTypes : DoAsMutSlice(E, 0, 0)
  \/ Held /\ ~Observed /\ \E E \in ElemTypes : DoToVec(E)
  \/ Held /\ ~Observed /\ \E E \in ElemTypes : DoIntoVec(E)
  \/ DoDrop

SpecWire == Init /\ [][WireNext]_vars

\* ------------------------------------------------- the nested arrays

\* Most elements of a nested array of three to five dimensions.
MaxElems == 4

\* The elements of a nested array of the given depth, pushed by as many
\* nested loops.
RECURSIVE FlattenDeep(_, _)
FlattenDeep(elems, depth) ==
  IF depth = 1 THEN elems
  ELSE Flatten([i \in 1..Len(elems) |-> FlattenDeep(elems[i], depth - 1)])

\* From<&[E]>: the elements pushed one by one, with shape [elems.len()].
from_slice(E, elems) == new(E, elems, <<Len(elems)>>)

\* From<&[usize]>: the elements pushed as i64.
from_usize_slice(elems) == new("I64", elems, <<Len(elems)>>)

\* From<[[[E; C]; B]; A]>
from_array3(E, A, B, C, elems) == new(E, FlattenDeep(elems, 3), <<A, B, C>>)

\* From<[[[[E; D]; C]; B]; A]>
from_array4(E, A, B, C, D, elems) == new(E, FlattenDeep(elems, 4), <<A, B, C, D>>)

\* From<[[[[[Elem; E]; D]; C]; B]; A]>
from_array5(Elem, A, B, C, D, E, elems) ==
  new(Elem, FlattenDeep(elems, 5), <<A, B, C, D, E>>)

\* The arrays of the dimensions dims with elements of S.
RECURSIVE Nested(_, _)
Nested(S, dims) ==
  IF dims = <<>> THEN S ELSE [1..Head(dims) -> Nested(S, Tail(dims))]

\* The dimensions of the arrays of n dimensions with MaxElems elements at
\* most.
ArrayDims(n) == {dims \in [1..n -> 0..MaxDim] : numel(dims) <= MaxElems}

DoFromSlice(E, elems) ==
  \E r \in {from_slice(E, elems)} :
    Constructed(r, [Call("from_slice", E, r.kind) EXCEPT !.values = elems])

DoFromUsizeSlice(elems) ==
  \E r \in {from_usize_slice(elems)} :
    Constructed(r, [Call("from_usize_slice", "I64", r.kind) EXCEPT !.values = elems])

DoFrom3(E, dims) ==
  \E elems \in Nested(Samples(E), dims) :
    \E r \in {from_array3(E, dims[1], dims[2], dims[3], elems)} :
      Constructed(r, [Call("from3", E, r.kind) EXCEPT !.shape = dims, !.elems = elems])

DoFrom4(E, dims) ==
  \E elems \in Nested(Samples(E), dims) :
    \E r \in {from_array4(E, dims[1], dims[2], dims[3], dims[4], elems)} :
      Constructed(r, [Call("from4", E, r.kind) EXCEPT !.shape = dims, !.elems = elems])

DoFrom5(E, dims) ==
  \E elems \in Nested(Samples(E), dims) :
    \E r \in {from_array5(E, dims[1], dims[2], dims[3], dims[4], dims[5], elems)} :
      Constructed(r, [Call("from5", E, r.kind) EXCEPT !.shape = dims, !.elems = elems])

\* A conversion from a slice or from an array of three to five dimensions.
FromNested ==
  \/ \E E \in ElemTypes : \E elems \in ValueVecs(E) : DoFromSlice(E, elems)
  \/ \E elems \in ValueVecs("U64") : DoFromUsizeSlice(elems)
  \/ \E E \in ElemTypes, dims \in ArrayDims(3) : DoFrom3(E, dims)
  \/ \E E \in ElemTypes, dims \in ArrayDims(4) : DoFrom4(E, dims)
  \/ \E E \in ElemTypes, dims \in ArrayDims(5) : DoFrom5(E, dims)

BuildNext ==
  \/ Fresh /\ Construct
  \/ Fresh /\ FromNested
  \/ DoDrop

SpecBuild == Init /\ [][BuildNext]_vars

\* ------------------------------------------------------ the assertions

\* Largest precision handed to assert_approx_eq.
MaxPrecision == 1

\* 2^24: the f32 values from here on are the even integers.
BigInt == Pow2(24)

\* The elements of the tensors that are compared: for f32 and f64 floats
\* that are no numbers as well, for i32 an integer next to one that f32
\* rounds, and 1 for the kinds that differ in width only.
AssertSamples(E) ==
  CASE E = "Bool" -> {0, 1}
    [] E = "F32" -> {1, PosInf, NegInf, NaN}
    [] E = "F64" -> {1, 3, NaN}
    [] E = "I32" -> {1, BigInt}
    [] E = "I8" -> {1, 2}
    [] OTHER -> {1}
AssertVecs(E) == SeqsUpTo(AssertSamples(E), MaxLen)
Codes == SeqsUpTo({1, 2}, MaxLen)

\* The bounds of the ranges, of any Element type.
RangeEnds == {0, 1, 2, BigInt + 1, BigInt + 2}

\* 0, 1 and f64::INFINITY.
Tolerances == {Tolerance(0, 1), Tolerance(1, 1), Tolerance(1, 0)}

\* The other tensor of a comparison, with the elements it was built from:
\* one of any type, of one or of two dimensions, or a quantized one.
Built(r, values) == [td |-> r.td, values |-> values]
Others ==
  UNION {
    UNION {{Built(from_array(E, elems), elems) : elems \in AssertVecs(E)} : E \in ElemTypes},
    {Built(new("I8", elems, <<1, Len(elems)>>), elems) : elems \in AssertVecs("I8")},
    UNION {{Built(quantized("I8", codes, <<Len(codes)>>, q), codes) : codes \in Codes}
             : q \in Strategies}}

AssertOps ==
  {"assert_within_range", "assert_eq", "assert_approx_eq_diff", "assert_approx_eq"}
Asserted == last.op \in AssertOps

\* An assertion on the TensorData held returned or panicked: the call, the
\* elements self was built from, the other tensor, the argument (strict,
\* the tolerance, the precision or the range) and the message of the panic.
AssertCall(op, kind, other, arg) ==
  [op |-> op, E |-> dtype, kind |-> kind, values |-> last.values, shape |-> <<>>,
   strategy |-> NoStrategy, from |-> dtype, index |-> 0,
   val |-> <<>>, params |-> NoParams, elems |-> <<>>, other |-> other, arg |-> arg,
   message |-> NoMessage]

NoOther == Built(Panic, <<>>)

DoAssertWithinRange(start_, end_) ==
  \E r \in {assert_within_range(data, start_, end_)} :
    Borrowed(AssertCall("assert_within_range", r, NoOther, <<start_, end_>>))

DoAssertEq(other, strict) ==
  \E r \in {assert_eq(data, other.td, strict)} :
    Borrowed([AssertCall("assert_eq", r.kind, other, strict)
                EXCEPT !.message = r.message])

DoAssertApproxEqDiff(other, tolerance) ==
  \E r \in {assert_approx_eq_diff(data, other.td, tolerance)} :
    Borrowed([AssertCall("assert_approx_eq_diff", r.kind, other, tolerance)
                EXCEPT !.message = r.message])

DoAssertApproxEq(other, precision) ==
  \E r \in {assert_approx_eq(data, other.td, precision)} :
    Borrowed([AssertCall("assert_approx_eq", r.kind, other, precision)
                EXCEPT !.message = r.message])

\* The tensor that is asserted on: built from an array, or quantized codes.
Build ==
  \/ \E E \in ElemTypes : \E elems \in AssertVecs(E) : DoFrom(E, elems)
  \/ \E codes \in Codes, q \in Strategies : DoQuantized("I8", codes, <<Len(codes)>>, q)

Check ==
  \/ \E start_ \in RangeEnds, end_ \in RangeEnds : DoAssertWithinRange(start_, end_)
  \/ \E other \in Others, strict \in BOOLEAN : DoAssertEq(other, strict)
  \/ \E other \in Others, tolerance \in Tolerances : DoAssertApproxEqDiff(other, tolerance)
  \/ \E other \in Others, precision \in 0..MaxPrecision : DoAssertApproxEq(other, precision)

AssertNext ==
  \/ Fresh /\ Build
  \/ Held /\ ~Asserted /\ Check
  \/ DoDrop

SpecAssert == Init /\ [][AssertNext]_vars

\* -------------------------------------------------- the failure messages

\* Longest tensor of the comparisons whose message is looked at: one more
\* element than the message lists positions.
MaxMsgLen == 6

\* Vectors long enough for more than max_num_diff differences.
LongVecs == SeqsUpTo({1, 2}, MaxMsgLen)
LongOthers == {Built(from_array("I8", elems), elems) : elems \in LongVecs}

MessageNext ==
  \/ Fresh /\ \E elems \in LongVecs : DoFrom("I8", elems)
  \/ Held /\ ~Asserted /\ \E other \in LongOthers, strict \in BOOLEAN : DoAssertEq(other, strict)
  \/ Held /\ ~Asserted /\ \E other \in LongOthers : DoAssertApproxEqDiff(other, Tolerance(0, 1))
  \/ DoDrop

SpecMessage == Init /\ [][MessageNext]_vars

\* ------------------------------------------ quantized tensors compared

\* #[derive(PartialEq)] of TensorData: the fields, one after the other.
eq(td, other) ==
  td.bytes = other.bytes /\ td.shape = other.shape /\ td.dtype = other.dtype

\* Strategies of one scheme that differ in the scale or in the offset.
QuantStrategies ==
  {AffineInt8(2, -128), AffineInt8(2, 0), AffineInt8(1, -128),
   SymmetricInt8(1), SymmetricInt8(2)}

\* The values quantized is given: 8-bit codes, and 16-bit ones.
CodeTypes == {"I8", "I16"}

QuantOthers ==
  UNION {UNION {{Built(quantized(E, codes, <<Len(codes)>>, q), codes) : codes \in Codes}
                  : q \in QuantStrategies} : E \in CodeTypes}

QuantNext ==
  \/ Fresh /\ \E E \in CodeTypes, codes \in Codes, q \in QuantStrategies :
                DoQuantized(E, codes, <<Len(codes)>>, q)
  \/ Held /\ ~Asserted /\ \E other \in QuantOthers, strict \in BOOLEAN : DoAssertEq(other, strict)
  \/ DoDrop

SpecQuant == Init /\ [][QuantNext]_vars

\* ------------------------------------------------------ the allocation

\* The buffer through conversions, and what into_vec makes of it.
AllocUse ==
  \/ \E E \in ElemTypes : DoConvert(E)
  \/ DoDequantize
  \/ \E E \in ElemTypes : DoIntoVec(E)

AllocNext ==
  \/ Fresh /\ Construct
  \/ Held /\ ~Observed /\ AllocUse
  \/ DoDrop

SpecAlloc == Init /\ [][AllocNext]_vars

\* ---------------------------------------------------------- properties

\* C1: a TensorData held with a dtype that is not QFloat has exactly
\* numel(shape) * (width of the dtype) bytes, after every constructor and
\* every operation.
C1_ByteLength ==
  (Held /\ ~IsQFloat(dtype)) => Len(bytes) = numel(shape) * size_of(dtype)

\* A conversion to another type of a tensor that had already been converted
\* or (de)quantized, with elements in it.
C1_Witness ==
  /\ last.op = "convert" /\ last.kind = "Ok" /\ last.from # dtype
  /\ ops = 2 /\ ~IsQFloat(dtype) /\ Len(bytes) > 0

\* C2 as stated: a QFloat TensorData built by quantized (from values of any
\* Element type) or by with_quantization holds numel(shape) one-byte codes
\* followed by the parameter bytes of its scheme: the bytes before the
\* parameters are numel(shape) many.
C2_QuantizedLayout ==
  (Held /\ IsQFloat(dtype) /\ last.op \in {"quantized", "with_quantization"}) =>
    tensor_bytes_end(data) = numel(shape)

\* C3 as stated: where new(values, shape) does not panic, into_vec::<E>() of
\* its result is Ok(values).
C3_RoundTrip ==
  (last.op = "new" /\ last.kind = "Ok") =>
    LET r == into_vec(last.E, data)
    IN r.kind = "Ok" /\ r.val = last.values

\* C3, amended: where new(values, shape) does not panic, into_vec::<E>() of
\* its result is Ok of the first numel(shape) elements of values.
C3_RoundTripTruncated ==
  (last.op = "new" /\ last.kind = "Ok") =>
    LET r == into_vec(last.E, data)
    IN r.kind = "Ok" /\ r.val = Take(last.values, numel(last.shape))

\* new was given more values than the shape holds, and kept some.
C3_Witness ==
  /\ last.op = "new" /\ last.kind = "Ok"
  /\ Len(last.values) > numel(last.shape) /\ numel(last.shape) > 0

\* C4: iter::<E>() of a TensorData whose dtype is E yields num_elements()
\* items, the sequence into_vec::<E>() and to_vec::<E>() return.
C4_IterIsVec ==
  (last.op = "iter" /\ last.E = dtype) =>
    /\ last.kind = "Ok"
    /\ Len(last.val) = num_elements(data)
    /\ LET r == into_vec(last.E, data)
       IN r.kind = "Ok" /\ r.val = last.val
    /\ to_vec(last.E, data) = OkVec(last.val)

\* iter over the stored type of a tensor of two different elements.
C4_Witness ==
  /\ last.op = "iter" /\ last.E = dtype /\ size_of(dtype) > 1
  /\ Len(last.val) = 2 /\ last.val[1] # last.val[2]

\* C5: with N the product of the dimensions (1 for no dimension, 0 with a
\* zero dimension), new(values, shape) truncates values to N where there are
\* more, panics where there are fewer, and stores the N values with the
\* shape and the dtype of E where there are N.
C5_NewValidates ==
  /\ numel(<<>>) = 1
  /\ \A s \in Shapes : \A d \in 0..MaxDim :
       /\ numel(<<d>> \o s) = d * numel(s)
       /\ (\E i \in 1..Len(s) : s[i] = 0) => numel(s) = 0
  /\ last.op = "new" =>
       LET N == numel(last.shape)
       IN IF Len(last.values) < N
          THEN last.kind = "Panic" /\ ~Held
          ELSE /\ last.kind = "Ok"
               /\ shape = last.shape
               /\ dtype = last.E
               /\ Windows(last.E, bytes) = Take(last.values, N)

\* new panicked on too few values for a shape of two dimensions.
C5_Witness ==
  /\ last.op = "new" /\ last.kind = "Panic"
  /\ Len(last.shape) = 2 /\ Len(last.values) > 0

C7_CastError ==
  (/\ last.op \in {"as_slice", "as_mut_slice", "to_vec", "into_vec"}
   /\ last.E = dtype
   /\ Len(bytes) % size_of(last.E) # 0) => last.kind = "CastError"

\* C8: convert::<E>() returns a TensorData of dtype E, whatever the dtype
\* before (Bool and QFloat included), and converting the result to E again
\* returns it unchanged.
C8_ConvertIdempotent ==
  last.op = "convert" =>
    /\ last.kind = "Ok"
    /\ dtype = last.E
    /\ convert(last.E, data) = Ok(data)

\* A conversion of a quantized tensor with codes in it.
C8_Witness ==
  /\ last.op = "convert" /\ IsQFloat(last.from) /\ dtype = last.E /\ Len(bytes) > 0

\* C9: convert::<E>() keeps the shape and the count of elements, its i-th
\* element is the Element conversion to E of the i-th element before, and
\* where it converts in place (E of the stored width, the dtype neither Bool
\* nor QFloat) the bytes are those the elementwise path produces, as many as
\* before.
C9_ConvertElements ==
  [][last'.op = "convert" =>
       LET E == last'.E
           elements == IF IsQFloat(dtype)
                       THEN Take(Windows("I8", tensor_bytes(data)), numel(shape))
                       ELSE Windows(dtype, bytes)
           elementwise == new(E, iter(E, data).val, shape)
       IN /\ shape' = shape
          /\ (E # dtype /\ size_of(E) = DTypeSize(dtype) /\ dtype # "Bool" /\ ~IsQFloat(dtype))
               => /\ bytes' = elementwise.td.bytes
                  /\ Len(bytes') = Len(bytes)
          /\ Len(bytes') = Len(elements) * size_of(E)
          /\ Windows(E, bytes') = MapElem(E, elements)]_vars

\* An in-place conversion between an integer and a float type of one width,
\* of two different elements.
C9_Witness ==
  /\ last.op = "convert" /\ last.from # dtype /\ last.from \in ElemTypes \ {"Bool"}
  /\ size_of(last.from) = size_of(dtype) /\ size_of(dtype) > 1
  /\ (last.from \in FloatTypes) # (dtype \in FloatTypes)
  /\ numel(shape) = 2 /\ Windows(dtype, bytes)[1] # Windows(dtype, bytes)[2]

\* C10: get_q_params::<f32, i8>() of a quantized TensorData returns the scale
\* stored and the offset stored (an offset for the affine scheme, none for
\* the symmetric), and None of a TensorData that is not quantized.
C10_QParams ==
  /\ (last.op \in {"quantized", "with_quantization"} /\ last.kind = "Ok") =>
       get_q_params("F32", "I8", data) =
         [kind |-> "Some", scale |-> last.strategy.scale,
          offset |-> IF last.strategy.scheme = "PerTensorAffine"
                     THEN <<last.strategy.offset>> ELSE <<>>]
  /\ last.op = "get_q_params" =>
       /\ last.params = get_q_params("F32", "I8", data)
       /\ IsQFloat(dtype) <=> last.params.kind = "Some"
       /\ (last.params.offset # <<>>) <=> dtype = "QAffine"

\* The parameters read back from an affine quantization of an F32 tensor
\* with values in it.
C10_Witness ==
  /\ last.op = "get_q_params" /\ dtype = "QAffine" /\ ops > 0
  /\ last.params.offset = <<-128>> /\ last.params.scale = 2 /\ numel(shape) > 0

C12_Dequantize ==
  [][last'.op = "dequantize" =>
       IF ~IsQFloat(dtype) THEN last'.kind = "TypeMismatch"
       ELSE LET n == Len(bytes)
                scale == from_bytes("F32", SubSeq(bytes, n - 3, n))
                offset == IF dtype = "QAffine" THEN IntOfBytes(<<bytes[n - 4]>>, TRUE) ELSE 0
                code(i) == IntOfBytes(<<bytes[i]>>, TRUE)
            IN /\ last'.kind = "Ok"
               /\ dtype' = "F32"
               /\ shape' = shape
               /\ Len(bytes') = 4 * numel(shape)
               /\ Windows("F32", bytes')
                    = [i \in 1..numel(shape) |-> scale * (code(i) - offset)]]_vars

\* An affine tensor with codes in it was dequantized to values that are not
\* the codes.
C12_Witness ==
  /\ last.op = "dequantize" /\ last.kind = "Ok" /\ last.from = "QAffine"
  /\ numel(shape) = 2 /\ Windows("F32", bytes)[1] # Windows("F32", bytes)[2]

\* C13: with_quantization(strategy) panics where the dtype is not F32 (QFloat
\* included); of an F32 TensorData it returns one of dtype
\* QFloat(strategy.scheme()) with the same shape, one code for each element
\* and then the packed parameters, which dequantize() turns back into a
\* tensor of that shape.
C13_WithQuantization ==
  [][last'.op = "with_quantization" =>
       IF dtype # "F32" THEN last'.kind = "Panic" /\ dtype' = "None"
       ELSE LET q == last'.strategy
                after == TensorData(bytes', shape', dtype', align', capacity')
            IN /\ last'.kind = "Ok"
               /\ dtype' = QFloat(q.scheme)
               /\ shape' = shape
               /\ Len(bytes') = numel(shape) + Len(ParamBytes(q))
               /\ [i \in 1..numel(shape) |-> IntOfBytes(<<bytes'[i]>>, TRUE)]
                    = quantize(q, Windows("F32", bytes))
               /\ dequantize(after).kind = "Ok"
               /\ dequantize(after).td.shape = shape]_vars

\* An F32 tensor of two elements was quantized.
C13_Witness ==
  /\ last.op = "with_quantization" /\ last.kind = "Ok" /\ last.from = "F32"
  /\ IsQFloat(dtype) /\ numel(shape) = 2

\* C14 as stated: of a tensor built by quantized from n codes, iter::<E>()
\* yields n items for every E, the i-th the i-th code passed converted to E,
\* and tensor_bytes() is the n code bytes.
C14_IterCodes ==
  (last.op = "quantized" /\ last.kind = "Ok") =>
    LET codes == Take(last.values, numel(shape))
    IN /\ Len(tensor_bytes(data)) = Len(codes)
       /\ \A E \in ElemTypes : iter(E, data) = OkVec(MapElem(E, codes))

C16_NanInf ==
  last.op = "assert_approx_eq_diff" =>
    LET a(i) == elem("F64", last.values[i])
        b(i) == elem("F64", last.other.values[i])
        n == Min(Len(last.values), Len(last.other.values))
        finite(v) == ~is_nan(v) /\ ~is_infinite(v)
        same(i) == both_nan(a(i), b(i)) \/ (is_infinite(a(i)) /\ a(i) = b(i))
        apart(i) == \/ is_infinite(a(i)) /\ is_infinite(b(i)) /\ a(i) # b(i)
                    \/ is_nan(a(i)) /\ finite(b(i))
                    \/ finite(a(i)) /\ is_nan(b(i))
                    \/ is_infinite(a(i)) /\ finite(b(i))
                    \/ finite(a(i)) /\ is_infinite(b(i))
    IN /\ (shape = last.other.td.shape /\ \A i \in 1..n : same(i)) => last.kind = "Ok"
       /\ (\E i \in 1..n : apart(i)) => last.kind = "Panic"

\* C16: a position holding (NaN, NaN) or two infinities of the same sign
\* never counts, whatever the tolerance (nor does a finite pair within the
\* tolerance beside it); a position holding (NaN, finite) always counts and
\* makes the assertion panic, and one holding (+inf, -inf) or
\* (inf, finite) does so for every finite tolerance: against the tolerance
\* f64::INFINITY it does not count.
C16_NanInfFinite ==
  last.op \in {"assert_approx_eq_diff", "assert_approx_eq"} =>
    LET tolerance == IF last.op = "assert_approx_eq"
                     THEN Tolerance(1, Pow10(last.arg)) ELSE last.arg
        a(i) == elem("F64", last.values[i])
        b(i) == elem("F64", last.other.values[i])
        n == Min(Len(last.values), Len(last.other.values))
        finite(v) == ~is_nan(v) /\ ~is_infinite(v)
        same(i) == both_nan(a(i), b(i)) \/ (is_infinite(a(i)) /\ a(i) = b(i))
        within(i) == /\ finite(a(i)) /\ finite(b(i))
                     /\ \/ tolerance.den = 0
                        \/ Abs(a(i) - b(i)) <= tolerance.num \div tolerance.den
        nan(i) == (is_nan(a(i)) /\ finite(b(i))) \/ (finite(a(i)) /\ is_nan(b(i)))
        inf(i) == \/ is_infinite(a(i)) /\ is_infinite(b(i)) /\ a(i) # b(i)
                  \/ is_infinite(a(i)) /\ finite(b(i))
                  \/ finite(a(i)) /\ is_infinite(b(i))
    IN /\ (shape = last.other.td.shape /\ \A i \in 1..n : same(i) \/ within(i))
            => last.kind = "Ok"
       /\ (\E i \in 1..n : nan(i)) => last.kind = "Panic"
       /\ (\E i \in 1..n : inf(i))
            => (last.kind = "Panic" <=>
                  \/ tolerance.den # 0
                  \/ shape # last.other.td.shape
                  \/ \E i \in 1..n : nan(i) \/ (is_nan(a(i)) # is_nan(b(i))))

\* Tensors of equal shape with (NaN, NaN) at the first position and
\* (+inf, -inf) at the second: the assertion panicked.
C16_Witness ==
  /\ last.op = "assert_approx_eq_diff" /\ last.kind = "Panic"
  /\ shape = last.other.td.shape
  /\ last.values = <<NaN, PosInf>> /\ last.other.values = <<NaN, NegInf>>

\* C17: assert_approx_eq_diff(other, tolerance) panics iff the shapes
\* differ or some compared position has an absolute difference strictly
\* greater than the tolerance, the elements being read as f64 (a position
\* with a NaN or an infinity counts as C16 says): a difference equal to the
\* tolerance passes, different shapes fail even where every compared
\* position matches, and assert_approx_eq(other, precision) is the same
\* check with the tolerance 1 / 10^precision.
C17_Tolerance ==
  last.op \in {"assert_approx_eq_diff", "assert_approx_eq"} =>
    LET tolerance == IF last.op = "assert_approx_eq"
                     THEN Tolerance(1, Pow10(last.arg)) ELSE last.arg
        a(i) == elem("F64", last.values[i])
        b(i) == elem("F64", last.other.values[i])
        n == Min(Len(last.values), Len(last.other.values))
        finite(v) == ~is_nan(v) /\ ~is_infinite(v)
        greater(i) ==
          IF finite(a(i)) /\ finite(b(i))
          THEN tolerance.den # 0 /\ Abs(a(i) - b(i)) * tolerance.den > tolerance.num
          ELSE /\ ~both_nan(a(i), b(i))
               /\ ~(is_infinite(a(i)) /\ a(i) = b(i))
               /\ is_nan(a(i)) \/ is_nan(b(i)) \/ tolerance.den # 0
    IN /\ last.kind = "Panic" <=>
            (shape # last.other.td.shape \/ \E i \in 1..n : greater(i))
       /\ (/\ shape = last.other.td.shape /\ tolerance.den # 0
           /\ \A i \in 1..n : /\ finite(a(i)) /\ finite(b(i))
                              /\ Abs(a(i) - b(i)) * tolerance.den <= tolerance.num)
            => last.kind = "Ok"
       /\ shape # last.other.td.shape => last.kind = "Panic"

\* Two tensors of one shape whose elements differ by the tolerance, 1:
\* the assertion returned.
C17_Witness ==
  /\ last.op = "assert_approx_eq_diff" /\ last.kind = "Ok"
  /\ last.arg = Tolerance(1, 1) /\ shape = last.other.td.shape
  /\ last.values = <<1, 3>> /\ last.other.values = <<2, 2>>

\* C18 as stated: assert_eq(other, strict) with strict = true panics
\* whenever the dtypes differ; apart from that, in both modes, the elements
\* of other are read in the dtype of self and the call panics iff the shapes
\* differ or some position holds elements that compare unequal.
C18_AssertEq ==
  last.op = "assert_eq" =>
    LET other == last.other
        a(i) == last.values[i]
        b(i) == elem(dtype, other.values[i])
        n == Min(Len(last.values), Len(other.values))
    IN IF last.arg /\ dtype # other.td.dtype THEN last.kind = "Panic"
       ELSE IF IsQFloat(dtype)
       THEN last.kind = "Panic" <=>
              (shape # other.td.shape
                 \/ \E i \in 1..n : cmp_ne(a(i), elem("I8", other.values[i])))
       ELSE last.kind = "Panic" <=>
              (shape # other.td.shape \/ \E i \in 1..n : cmp_ne(a(i), b(i)))

\* C18: assert_eq(other, strict) with strict = true panics whenever the
\* dtypes differ; a quantized self panics, in both modes, when other is not
\* quantized or has another scheme; otherwise, in both modes, the elements
\* of other are read in the dtype of self (as i8 codes for a quantized self)
\* and the call panics iff the shapes differ or some position holds elements
\* that compare unequal, and returns normally otherwise.
C18_AssertEqQuantized ==
  last.op = "assert_eq" =>
    LET other == last.other
        E == IF IsQFloat(dtype) THEN "I8" ELSE dtype
        a(i) == last.values[i]
        b(i) == elem(E, other.values[i])
        n == Min(Len(last.values), Len(other.values))
    IN IF last.arg /\ dtype # other.td.dtype THEN last.kind = "Panic"
       ELSE IF IsQFloat(dtype) /\ dtype # other.td.dtype THEN last.kind = "Panic"
       ELSE last.kind = "Panic" <=>
              (shape # other.td.shape \/ \E i \in 1..n : cmp_ne(a(i), b(i)))

\* Not strict, a bool compared with the i8 value 2, read as the bool true:
\* the assertion returned.
C18_Witness ==
  /\ last.op = "assert_eq" /\ last.kind = "Ok" /\ last.arg = FALSE
  /\ dtype = "Bool" /\ last.values = <<1>>
  /\ last.other.td.dtype = "I8" /\ last.other.values = <<2>>

\* C19: random, zeros, ones, full and the From conversions of arrays of one
\* to five dimensions and of slices return a TensorData with the requested
\* shape (the dimensions of the array for From), the dtype of E (I64 for
\* usize) and exactly numel(shape) elements: 0 for zeros, 1 for ones,
\* fill_value for full, the draws for random, and for From the elements of
\* the input in row-major order.
C19_Constructors ==
  LET n == numel(shape)
      held == Windows(dtype, bytes)
      d == last.shape
      x == last.elems
      built == /\ last.kind = "Ok" /\ dtype = last.E
               /\ Len(bytes) = n * size_of(dtype) /\ Len(held) = n
  IN /\ last.op \in {"zeros", "ones", "full", "random"} =>
          /\ built /\ shape = d
          /\ \A i \in 1..n :
               held[i] = CASE last.op = "zeros" -> 0
                           [] last.op = "ones" -> 1
                           [] last.op = "full" -> last.values[1]
                           [] last.op = "random" -> last.values[i]
     /\ last.op \in {"from", "from_slice", "from_usize", "from_usize_slice"} =>
          /\ built /\ shape = <<Len(last.values)>> /\ held = last.values
          /\ last.op \in {"from_usize", "from_usize_slice"} => dtype = "I64"
     /\ last.op = "from2" =>
          /\ built /\ shape = d
          /\ \A a \in 1..d[1], b \in 1..d[2] : held[(a - 1) * d[2] + b] = x[a][b]
     /\ last.op = "from3" =>
          /\ built /\ shape = d
          /\ \A a \in 1..d[1], b \in 1..d[2], c \in 1..d[3] :
               held[((a - 1) * d[2] + (b - 1)) * d[3] + c] = x[a][b][c]
     /\ last.op = "from4" =>
          /\ built /\ shape = d
          /\ \A a \in 1..d[1], b \in 1..d[2], c \in 1..d[3], e \in 1..d[4] :
               held[(((a - 1) * d[2] + (b - 1)) * d[3] + (c - 1)) * d[4] + e]
                 = x[a][b][c][e]
     /\ last.op = "from5" =>
          /\ built /\ shape = d
          /\ \A a \in 1..d[1], b \in 1..d[2], c \in 1..d[3], e \in 1..d[4], f \in 1..d[5] :
               held[((((a - 1) * d[2] + (b - 1)) * d[3] + (c - 1)) * d[4] + (e - 1)) * d[5] + f]
                 = x[a][b][c][e][f]

\* An array of five dimensions, two of them 2, whose four elements are not
\* all the same, was converted.
C19_Witness ==
  /\ last.op = "from5" /\ last.kind = "Ok" /\ shape = <<1, 2, 1, 2, 1>>
  /\ Windows(dtype, bytes) = <<1, 100, 100, 1>>

\* C20 as stated: assert_eq panics whenever exactly one of self and other
\* has a QFloat dtype, for strict = true and strict = false and whichever of
\* the two is the receiver; when both are quantized it panics if the schemes
\* differ.
C20_QuantizedMismatch ==
  last.op = "assert_eq" =>
    /\ IsQFloat(dtype) # IsQFloat(last.other.td.dtype) => last.kind = "Panic"
    /\ (IsQFloat(dtype) /\ IsQFloat(last.other.td.dtype)
          /\ SchemeOf(dtype) # SchemeOf(last.other.td.dtype)) => last.kind = "Panic"

\* C21 as stated: when assert_eq or assert_approx_eq_diff finds k differing
\* positions, the message lists the first min(k, 5) of them in increasing
\* order, and the line "<N> more errors..." is there only when there are
\* differences beyond the 5 listed, with N = k - 5.
C21_Message ==
  (/\ last.op \in {"assert_eq", "assert_approx_eq_diff"}
   /\ last.message.head \in {"Tensors are not eq:", "Tensors are not approx eq:"}) =>
    LET a == last.values
        b == last.other.values
        differs(i) == IF last.op = "assert_eq" THEN a[i + 1] # b[i + 1]
                      ELSE Abs(a[i + 1] - b[i + 1]) * last.arg.den > last.arg.num
        diffs == {i \in 0..(Min(Len(a), Len(b)) - 1) : differs(i)}
        k == Cardinality(diffs)
        listed == last.message.positions
    IN /\ Len(listed) = Min(k, 5)
       /\ \A j \in 1..Len(listed) :
            /\ listed[j] \in diffs
            /\ Cardinality({i \in diffs : i < listed[j]}) = j - 1
       /\ last.message.more # <<>> <=> k > 5
       /\ last.message.more # <<>> => last.message.more[1] = k - 5

\* C22: while a TensorData of a dtype that is not QFloat is held, after any
\* constructors, convert and dequantize, the buffer is the allocation of a
\* vector of elements of the dtype's width: its length and its capacity are
\* those of the vector times the width, and it is aligned for the dtype. new
\* gives the buffer the length numel(shape) and the capacity of its vector,
\* a conversion in place keeps the capacity, and into_vec returns the length
\* and the capacity of the buffer divided by the width with no remainder.
C22_Allocation ==
  [][/\ dtype' \in ElemTypes =>
          /\ Len(bytes') % size_of(dtype') = 0
          /\ capacity' % size_of(dtype') = 0
          /\ capacity' >= Len(bytes')
          /\ align' >= align_of(dtype')
     /\ (last'.op = "new" /\ last'.kind = "Ok") =>
          /\ Len(bytes') = numel(last'.shape) * size_of(last'.E)
          /\ capacity' = Len(last'.values) * size_of(last'.E)
     /\ (last'.op = "convert" /\ last'.kind = "Ok" /\ dtype \in ElemTypes \ {"Bool"}
           /\ size_of(last'.E) = size_of(dtype)) =>
          /\ capacity' = capacity
          /\ Len(bytes') = Len(bytes)
     /\ (last'.op = "into_vec" /\ last'.kind = "Ok") =>
          /\ Len(last'.val) * size_of(last'.E) = Len(bytes)
          /\ last'.capacity * size_of(last'.E) = capacity
    ]_vars

\* into_vec returned a vector with spare capacity after a conversion: the
\* buffer was built by new from a longer vector and converted in place.
C22_Witness ==
  /\ last.op = "into_vec" /\ last.kind = "Ok"
  /\ ops >= 1
  /\ last.E # "Bool" /\ size_of(last.E) > 1
  /\ Len(last.val) > 0
  /\ last.capacity > Len(last.val)

\* C23: assert_eq of a quantized TensorData with a quantized one of the same
\* scheme and the same shape, strict or not, returns iff the codes the two
\* were built from are equal position by position; the two need not have
\* the same scale and offset, and where they have not, they are not equal
\* under PartialEq although assert_eq returns.
C23_QuantizedEq ==
  (/\ last.op = "assert_eq" /\ IsQFloat(dtype)
   /\ last.other.td.dtype = dtype /\ last.other.td.shape = shape) =>
    LET other == last.other.td
        footprint == IF dtype = "QAffine" THEN 5 ELSE 4
        Params(b) == SubSeq(b, Len(b) - footprint + 1, Len(b))
        same == last.values = last.other.values
    IN /\ last.kind = "Ok" <=> same
       /\ (same /\ Params(bytes) # Params(other.bytes)) => ~eq(data, other)

\* C24: a quantized TensorData, made by quantized or by with_quantization,
\* of a shape with no elements as well, has at least the bytes of the
\* parameters of its scheme: the scale, the offset and the end of the values
\* start at an index that is not negative and not behind the buffer, and
\* get_q_params, convert (which reads through iter) and dequantize of it do
\* not panic.
C24_Footprint ==
  [][/\ IsQFloat(dtype') =>
          LET total == Len(bytes')
              scale_start == total - size_of("F32")
              offset_start == scale_start - size_of("I8")
              after == TensorData(bytes', shape', dtype', align', capacity')
          IN /\ scale_start >= 0
             /\ dtype' = "QAffine" => offset_start >= 0
             /\ total >= (IF dtype' = "QAffine" THEN 5 ELSE 4)
             /\ tensor_bytes_end(after) \in 0..total
     /\ (IsQFloat(dtype) /\ last'.op \in {"convert", "dequantize"}) => last'.kind = "Ok"
     /\ (IsQFloat(dtype) /\ last'.op = "get_q_params") => last'.kind = "Some"
    ]_vars

\* The parameters were read back from a quantized TensorData without
\* elements that with_quantization returned: its buffer is the parameters.
C24_Witness ==
  /\ IsQFloat(dtype) /\ numel(shape) = 0
  /\ ops >= 1
  /\ Len(bytes) = (IF dtype = "QAffine" THEN 5 ELSE 4)
  /\ last.op = "get_q_params" /\ last.kind = "Some"

====
